---- MODULE Spec2Model ----
(***************************************************************************)
(* nanodiff: the line-matching diff engine in its two revisions.           *)
(*                                                                         *)
(*   revision "functions"   : src/nanodiff.cpp, diff_file_stdout_eager and *)
(*                            diff_file_stdout as two free functions       *)
(*   revision "file_differ" : src/unnamed/part_003, file_differ::do_diff   *)
(*                            driven by eager_file_differ/lazy_file_differ *)
(*                                                                         *)
(* A behaviour takes one pair of files: main runs diff_file_stdout_eager   *)
(* on it and exits, then the test suite runs diff_file_stdout on the same  *)
(* two files.  Files are byte sequences; lines come out of std::getline.   *)
(***************************************************************************)
EXTENDS Integers, Sequences, FiniteSets

\* bounds of the model
MaxExpectedBytes == 4
MaxActualBytes == 5
\* cap of the pending buffer of a read-ahead loop that never ends
MaxBuffer == MaxActualBytes + 3
MaxScenarioLines == 3            \* lines of a file of the test scenarios
MaxWordLen == 4                  \* characters of a line of the test scenarios
MaxArgs == 4                     \* command-line arguments after argv[0]

NL == "\n"
Char == {"a", NL}

EXIT_SUCCESS == 0
EXIT_FAILURE == 1

VARIABLES
  revision,          \* which revision of the engine runs
  strategy,          \* "eager" | "lazy": the entry point that is running
  expected_file,     \* bytes of the expected file
  actual_file,       \* bytes of the actual file
  expected,          \* std::ifstream expected / _expected
  actual,            \* std::ifstream actual / _actual
  expected_content,  \* expected_content / _expected_content
  actual_content,    \* actual_content / _actual_content
  expected_it,       \* _expected_it (1-based index into _expected_content)
  actual_it,         \* actual_it / _actual_it (1-based index)
  expected_line,     \* optional<string>: <<>> or <<line>>
  actual_buffer,     \* std::vector<std::string> actual_buffer
  matching_actual_it,\* index into actual_buffer, Len+1 = end()
  has_diff,          \* bool has_diff
  events,            \* what line_callback has received, in order
  ret,               \* optional<bool>: return value of the entry point
  pc,                \* position in the running function
  eager_run,         \* events and return value of the finished eager run
  exit_code,         \* optional<int>: exit status of main
  peak_buffer,       \* largest size actual_buffer has had in the running call
  argv,              \* char** argv of main, argv[0] included
  fs,                \* the file system: what each path names
  cli_pc,            \* position in main before the diff call
  cmd_args_or_err,   \* arg_parse_result cmd_args_or_err
  expected_path_or_err, \* std::expected<path, string>
  actual_path_or_err,   \* std::expected<path, string>
  printed,           \* messages main has printed, in order
  opened,            \* paths a std::ifstream has been constructed on
  core_called,       \* diff_file_stdout_eager has been called by main
  status             \* optional<int>: exit status of the process

diff_vars == <<revision, strategy, expected_file, actual_file, expected,
               actual, expected_content, actual_content, expected_it,
               actual_it, expected_line, actual_buffer, matching_actual_it,
               has_diff, events, ret, pc, eager_run, exit_code, peak_buffer>>

cli_vars == <<argv, fs, cli_pc, cmd_args_or_err, expected_path_or_err,
              actual_path_or_err, printed, opened, core_called, status>>

vars == <<diff_vars, cli_vars>>

inputs == <<revision, expected_file, actual_file>>
run_record == <<eager_run, exit_code>>

----------------------------------------------------------------------------
\* generic helpers

RECURSIVE SeqsUpTo(_)
SeqsUpTo(n) ==
  IF n = 0 THEN {<<>>}
  ELSE LET S == SeqsUpTo(n - 1)
       IN S \cup {Append(s, c) : s \in {t \in S : Len(t) = n - 1}, c \in Char}

Min(S) == CHOOSE x \in S : \A y \in S : x <= y

None == <<>>
Some(x) == <<x>>

----------------------------------------------------------------------------
\* std::ifstream and std::getline

OpenStream(file) == [data |-> file, pos |-> 1, eofbit |-> FALSE, failbit |-> FALSE]

\* explicit operator bool of a stream: !fail()
Good(s) == ~s.failbit

\* std::getline(s, line) into a freshly constructed empty line.
\* The sentry fails on a stream that is not good() and sets failbit; the line
\* stays empty.  Otherwise characters are extracted up to the delimiter, which
\* is dropped, or up to the end of the data, which sets eofbit, and failbit
\* too when no character was extracted.
\* a getline that sets failbit whenever it reaches the end of the data,
\* whether or not it has extracted characters
getline_fails_at_end(s) ==
  IF s.eofbit \/ s.failbit
  THEN [line |-> <<>>, stream |-> [s EXCEPT !.failbit = TRUE]]
  ELSE LET delims == {i \in s.pos..Len(s.data) : s.data[i] = NL}
       IN IF delims # {}
          THEN [line |-> SubSeq(s.data, s.pos, Min(delims) - 1),
                stream |-> [s EXCEPT !.pos = Min(delims) + 1]]
          ELSE [line |-> SubSeq(s.data, s.pos, Len(s.data)),
                stream |-> [s EXCEPT !.pos = Len(s.data) + 1,
                                     !.eofbit = TRUE,
                                     !.failbit = TRUE]]

getline(s) ==
  IF s.eofbit \/ s.failbit
  THEN [line |-> <<>>, stream |-> [s EXCEPT !.failbit = TRUE]]
  ELSE LET delims == {i \in s.pos..Len(s.data) : s.data[i] = NL}
       IN IF delims # {}
          THEN [line |-> SubSeq(s.data, s.pos, Min(delims) - 1),
                stream |-> [s EXCEPT !.pos = Min(delims) + 1]]
          ELSE [line |-> SubSeq(s.data, s.pos, Len(s.data)),
                stream |-> [s EXCEPT !.pos = Len(s.data) + 1,
                                     !.eofbit = TRUE,
                                     !.failbit = (s.pos > Len(s.data))]]

\* while (stream) { std::string line{}; std::getline(stream, line);
\*                  content.emplace_back(std::move(line)); }
RECURSIVE ReadAll(_)
ReadAll(s) ==
  IF ~Good(s) THEN <<>>
  ELSE LET r == getline(s) IN <<r.line>> \o ReadAll(r.stream)

RECURSIVE Exhaust(_)
Exhaust(s) == IF ~Good(s) THEN s ELSE Exhaust(getline(s).stream)

----------------------------------------------------------------------------
\* diff events and the pieces shared by every copy of the matching loop

diff_line(l, t) == [line |-> l, type |-> t]

\* std::ranges::for_each(lines, callback(diff_line{l, actual_only}))
EmitAll(lines, t) == [i \in 1..Len(lines) |-> diff_line(lines[i], t)]

\* find as a search from the back would do it: the last equal element
find_latest(buffer, line) ==
  LET hits == {i \in 1..Len(buffer) : buffer[i] = line}
  IN IF hits = {} THEN Len(buffer) + 1
     ELSE CHOOSE i \in hits : \A j \in hits : j <= i

\* std::ranges::find(buffer, line): index of the first equal element, or end()
find(buffer, line) ==
  LET hits == {i \in 1..Len(buffer) : buffer[i] = line}
  IN IF hits = {} THEN Len(buffer) + 1 ELSE Min(hits)

\* the one-element search put at the front of the buffer:
\* std::ranges::find(buffer.begin(), buffer.begin() + 1, line)
find_last_at_front(buffer, line) ==
  IF buffer[1] = line THEN 1 ELSE Len(buffer) + 1

\* std::ranges::find(buffer.end() - 1, buffer.end(), line)
find_last(buffer, line) ==
  IF buffer[Len(buffer)] = line THEN Len(buffer) ELSE Len(buffer) + 1

\* output_diff without its first statement: has_diff is left as it was
output_diff_keeps_flag(only_actual, hd, evs) ==
  [has_diff |-> hd,
   events |-> evs \o EmitAll(only_actual, "actual_only")]

\* the output_diff lambda: has_diff |= !only_actual.empty(); emit; clear
output_diff(only_actual, hd, evs) ==
  [has_diff |-> hd \/ only_actual # <<>>,
   events |-> evs \o EmitAll(only_actual, "actual_only")]

\* the match branch without the "if (has_diff)" around the context line
match_branch_always_context(buffer, it, line, hd, evs) ==
  LET out == output_diff(SubSeq(buffer, 1, it - 1), hd, evs)
  IN [has_diff |-> out.has_diff,
      events |-> Append(out.events, diff_line(line, "context")),
      buffer |-> SubSeq(buffer, it + 1, Len(buffer))]

\* the match branch with the context line ahead of output_diff()
match_branch_context_first(buffer, it, line, hd, evs) ==
  LET only_actual == SubSeq(buffer, 1, it - 1)
      flagged == hd \/ only_actual # <<>>
      first == IF flagged THEN Append(evs, diff_line(line, "context")) ELSE evs
  IN [has_diff |-> flagged,
      events |-> first \o EmitAll(only_actual, "actual_only"),
      buffer |-> SubSeq(buffer, it + 1, Len(buffer))]

\* the match branch with an erase that stops in front of the matched line
match_branch_keeps_match(buffer, it, line, hd, evs) ==
  LET out == output_diff(SubSeq(buffer, 1, it - 1), hd, evs)
  IN [has_diff |-> out.has_diff,
      events |-> IF out.has_diff
                 THEN Append(out.events, diff_line(line, "context"))
                 ELSE out.events,
      buffer |-> SubSeq(buffer, it, Len(buffer))]

\* the body of "if (matching_actual_it != actual_buffer.end())":
\* move the first nlines lines to only_actual, output_diff(), the context
\* line when has_diff, erase up to and including the match
match_branch(buffer, it, line, hd, evs) ==
  LET nlines == it - 1
      only_actual == SubSeq(buffer, 1, nlines)
      out == output_diff(only_actual, hd, evs)
  IN [has_diff |-> out.has_diff,
      events |-> IF out.has_diff
                 THEN Append(out.events, diff_line(line, "context"))
                 ELSE out.events,
      buffer |-> SubSeq(buffer, it + 1, Len(buffer))]

\* the else branch with the held-back lines put out ahead of expected_only
miss_branch_flushes_first(line, evs) ==
  [has_diff |-> TRUE,
   events |-> Append(evs \o EmitAll(actual_buffer, "actual_only"),
                     diff_line(line, "expected_only"))]

\* the else branch: has_diff = true; callback(expected_only)
miss_branch(line, evs) ==
  [has_diff |-> TRUE, events |-> Append(evs, diff_line(line, "expected_only"))]

----------------------------------------------------------------------------
\* main up to the call of the diff core: command line and paths

Program == "nanodiff"
Delimiter == "--"
Paths == {"e", "a"}
Kind == {"missing", "directory", "regular", "unreadable"}

RECURSIVE ArgLists(_)
ArgLists(n) ==
  IF n = 0 THEN {<<>>}
  ELSE LET S == ArgLists(n - 1)
       IN S \cup {Append(t, x) : t \in {u \in S : Len(u) = n - 1},
                                 x \in Paths \cup {Delimiter}}

\* std::expected: a value or an error
Value(v) == [has_value |-> TRUE, value |-> v]
Unexpected(e) == [has_value |-> FALSE, error |-> e]

\* validate_args(args)
validate_args(args) ==
  IF args.expected = None
  THEN Unexpected("Missing argument for path to expected output")
  ELSE IF args.actual = None
  THEN Unexpected("Missing argument for path to actual output")
  ELSE Value(args)

\* the for loop of parse_cmdline from position it on
RECURSIVE parse_loop(_, _, _, _)
parse_loop(args, it, parse_options, cmd_args) ==
  IF it = Len(args) + 1 THEN validate_args(cmd_args)
  ELSE IF args[it] = Delimiter THEN parse_loop(args, it + 1, FALSE, cmd_args)
  ELSE IF parse_options THEN parse_loop(args, it + 1, parse_options, cmd_args)
  ELSE IF cmd_args.expected = None
  THEN parse_loop(args, it + 1, parse_options,
                  [cmd_args EXCEPT !.expected = Some(args[it])])
  ELSE IF cmd_args.actual = None
  THEN parse_loop(args, it + 1, parse_options,
                  [cmd_args EXCEPT !.actual = Some(args[it])])
  ELSE Unexpected("Too many arguments")

\* parse_cmdline(args): args is the whole argv, the program name included
parse_cmdline(args) ==
  parse_loop(args, 1, TRUE, [expected |-> None, actual |-> None])

\* what a path names; a path the file system does not know names nothing
KindOf(path_str) == IF path_str \in DOMAIN fs THEN fs[path_str] ELSE "missing"

\* std::filesystem::canonical(path): the absolute path
canonical(path_str) == <<"/", path_str>>

\* normalize_path(path_str)
normalize_path(path_str) ==
  IF KindOf(path_str) = "missing"
  THEN Unexpected(<<path_str, "File not found">>)
  ELSE IF KindOf(path_str) = "directory"
  THEN Unexpected(<<path_str, "Not a file">>)
  ELSE Value(canonical(path_str))

\* operator* of std::expected: the value; on an object that holds an error
\* the behaviour is undefined, the bytes read as a path may name anything
Deref(x) ==
  IF x.has_value THEN {x.value}
  ELSE {canonical(q) : q \in Paths} \cup {<<"?">>}

\* std::ifstream{path} converts to true
Opens(path) == Len(path) = 2 /\ KindOf(path[2]) = "regular"

\* args{argv, argv + argc}; parse_cmdline(args); on error print and return 1
main_parse_cmdline ==
  /\ cli_pc = "start"
  /\ cmd_args_or_err' = parse_cmdline(argv)
  /\ IF ~cmd_args_or_err'.has_value
     THEN /\ printed' = Append(printed,
                <<"Error while parsing command-line arguments",
                  cmd_args_or_err'.error>>)
          /\ status' = Some(1)
          /\ cli_pc' = "exited"
     ELSE /\ cli_pc' = "normalize_expected"
          /\ UNCHANGED <<printed, status>>
  /\ UNCHANGED <<diff_vars, argv, fs, expected_path_or_err,
                 actual_path_or_err, opened, core_called>>

\* expected_path_or_err = normalize_path(*cmd_args.expected); on error the
\* message is printed and main goes on
main_normalize_expected ==
  /\ cli_pc = "normalize_expected"
  /\ expected_path_or_err' = normalize_path(cmd_args_or_err.value.expected[1])
  /\ printed' = IF expected_path_or_err'.has_value THEN printed
                ELSE Append(printed, expected_path_or_err'.error)
  /\ cli_pc' = "normalize_actual"
  /\ UNCHANGED <<diff_vars, argv, fs, cmd_args_or_err, actual_path_or_err,
                 opened, core_called, status>>

\* actual_path_or_err = normalize_path(*cmd_args.actual); likewise
main_normalize_actual ==
  /\ cli_pc = "normalize_actual"
  /\ actual_path_or_err' = normalize_path(cmd_args_or_err.value.actual[1])
  /\ printed' = IF actual_path_or_err'.has_value THEN printed
                ELSE Append(printed, actual_path_or_err'.error)
  /\ cli_pc' = "open"
  /\ UNCHANGED <<diff_vars, argv, fs, cmd_args_or_err, expected_path_or_err,
                 opened, core_called, status>>

\* a hardened standard library aborts the process in operator* of an
\* std::expected that holds an error: the shell sees status 134 (SIGABRT)
main_abort ==
  /\ cli_pc = "open"
  /\ ~expected_path_or_err.has_value \/ ~actual_path_or_err.has_value
  /\ status' = Some(134)
  /\ cli_pc' = "exited"
  /\ UNCHANGED <<diff_vars, argv, fs, cmd_args_or_err, expected_path_or_err,
                 actual_path_or_err, printed, opened, core_called>>

\* std::ifstream expected{*expected_path_or_err}; std::ifstream actual{...};
\* if (!expected) / if (!actual): print, return EXIT_FAILURE
main_open ==
  /\ cli_pc = "open"
  /\ \E expected_path \in Deref(expected_path_or_err),
        actual_path \in Deref(actual_path_or_err) :
       /\ opened' = opened \cup {expected_path, actual_path}
       /\ IF ~Opens(expected_path)
          THEN /\ printed' = Append(printed,
                                    <<"Unable to open file", expected_path>>)
               /\ status' = Some(EXIT_FAILURE)
               /\ cli_pc' = "exited"
          ELSE IF ~Opens(actual_path)
          THEN /\ printed' = Append(printed,
                                    <<"Unable to open file", actual_path>>)
               /\ status' = Some(EXIT_FAILURE)
               /\ cli_pc' = "exited"
          ELSE /\ cli_pc' = "call"
               /\ UNCHANGED <<printed, status>>
  /\ UNCHANGED <<diff_vars, argv, fs, cmd_args_or_err, expected_path_or_err,
                 actual_path_or_err, core_called>>

\* has_diff = diff_file_stdout_eager(...); if (has_diff) return EXIT_FAILURE;
\* the result is whatever the diff of the two files returns
main_diff ==
  /\ cli_pc = "call"
  /\ core_called' = TRUE
  /\ \E result \in BOOLEAN :
       status' = Some(IF result THEN EXIT_FAILURE ELSE EXIT_SUCCESS)
  /\ cli_pc' = "exited"
  /\ UNCHANGED <<diff_vars, argv, fs, cmd_args_or_err, expected_path_or_err,
                 actual_path_or_err, printed, opened>>

\* main has parsed "nanodiff -- e a", has opened both files and is in the
\* call of the diff core
MainInCall ==
  /\ argv = <<Program, Delimiter, "e", "a">>
  /\ fs = [q \in Paths |-> "regular"]
  /\ cli_pc = "in_call"
  /\ cmd_args_or_err = Value([expected |-> Some("e"), actual |-> Some("a")])
  /\ expected_path_or_err = Value(canonical("e"))
  /\ actual_path_or_err = Value(canonical("a"))
  /\ printed = <<>>
  /\ opened = {canonical("e"), canonical("a")}
  /\ core_called = TRUE
  /\ status = None

----------------------------------------------------------------------------
Init ==
  /\ revision \in {"functions", "file_differ"}
  /\ expected_file \in SeqsUpTo(MaxExpectedBytes)
  /\ actual_file \in SeqsUpTo(MaxActualBytes)
  /\ strategy = "eager"
  /\ expected = OpenStream(expected_file)
  /\ actual = OpenStream(actual_file)
  /\ expected_content = <<>>
  /\ actual_content = <<>>
  /\ expected_it = 1
  /\ actual_it = 1
  /\ expected_line = None
  /\ actual_buffer = <<>>
  /\ matching_actual_it = 1
  /\ has_diff = FALSE
  /\ events = <<>>
  /\ ret = None
  /\ pc = "entry"
  /\ eager_run = None
  /\ exit_code = None
  /\ peak_buffer = 0
  /\ MainInCall

----------------------------------------------------------------------------
\* revision "file_differ": the line sources

\* eager_file_differ::read_expected_line / read_actual_line: a cursor over
\* the hydrated content
eager_read_line_rewinds(content, it) ==
  IF it = Len(content) + 1
  THEN [line |-> None, it |-> 1]
  ELSE [line |-> Some(content[it]), it |-> it + 1]
eager_read_line(content, it) ==
  IF it = Len(content) + 1
  THEN [line |-> None, it |-> it]
  ELSE [line |-> Some(content[it]), it |-> it + 1]

\* lazy_file_differ::read_expected_line / read_actual_line: one getline per
\* call while the stream converts to true
lazy_read_line_drops_failed_read(s) ==
  IF Good(s) /\ Good(getline(s).stream)
  THEN [line |-> Some(getline(s).line), stream |-> getline(s).stream]
  ELSE [line |-> None, stream |-> getline(s).stream]
lazy_read_line(s) ==
  IF Good(s)
  THEN [line |-> Some(getline(s).line), stream |-> getline(s).stream]
  ELSE [line |-> None, stream |-> s]

\* virtual read_expected_line(): the line, and the source after the call
read_expected_line ==
  IF strategy = "eager"
  THEN LET r == eager_read_line(expected_content, expected_it)
       IN [line |-> r.line, it |-> r.it, stream |-> expected]
  ELSE LET r == lazy_read_line(expected)
       IN [line |-> r.line, it |-> expected_it, stream |-> r.stream]

\* virtual read_actual_line()
read_actual_line ==
  IF strategy = "eager"
  THEN LET r == eager_read_line(actual_content, actual_it)
       IN [line |-> r.line, it |-> r.it, stream |-> actual]
  ELSE LET r == lazy_read_line(actual)
       IN [line |-> r.line, it |-> actual_it, stream |-> r.stream]

\* eager_file_differ(std::ifstream expected, std::ifstream actual)
eager_file_differ ==
  /\ revision = "file_differ" /\ strategy = "eager" /\ pc = "entry"
  /\ expected_content' = ReadAll(expected)
  /\ expected' = Exhaust(expected)
  /\ expected_it' = 1
  /\ actual_content' = ReadAll(actual)
  /\ actual' = Exhaust(actual)
  /\ actual_it' = 1
  /\ pc' = "do_diff"
  /\ UNCHANGED <<cli_vars, inputs, peak_buffer, strategy, expected_line, actual_buffer,
                 matching_actual_it, has_diff, events, ret, run_record>>

\* lazy_file_differ(std::ifstream expected, std::ifstream actual)
lazy_file_differ ==
  /\ revision = "file_differ" /\ strategy = "lazy" /\ pc = "entry"
  /\ pc' = "do_diff"
  /\ UNCHANGED <<cli_vars, inputs, peak_buffer, strategy, expected, actual, expected_content,
                 actual_content, expected_it, actual_it, expected_line,
                 actual_buffer, matching_actual_it, has_diff, events, ret,
                 run_record>>

----------------------------------------------------------------------------
\* revision "file_differ": file_differ::do_diff

\* bool has_diff{}; only_actual{}; actual_buffer; first read_expected_line()
do_diff_begin ==
  /\ revision = "file_differ" /\ pc = "do_diff"
  /\ has_diff' = FALSE
  /\ actual_buffer' = <<>>
  /\ expected_line' = read_expected_line.line
  /\ expected_it' = read_expected_line.it
  /\ expected' = read_expected_line.stream
  /\ pc' = "while_expected"
  /\ UNCHANGED <<cli_vars, inputs, peak_buffer, strategy, actual, expected_content, actual_content,
                 actual_it, matching_actual_it, events, ret, run_record>>

\* while (expected_line) { matching_actual_it = find(actual_buffer, ...)
do_diff_while_expected ==
  /\ revision = "file_differ" /\ pc = "while_expected"
  /\ IF expected_line # None
     THEN /\ matching_actual_it' = find(actual_buffer, expected_line[1])
          /\ pc' = IF matching_actual_it' = Len(actual_buffer) + 1
                   THEN "search" ELSE "classify"
     ELSE /\ pc' = "flush"
          /\ UNCHANGED matching_actual_it
  /\ UNCHANGED <<cli_vars, inputs, peak_buffer, strategy, expected, actual, expected_content,
                 actual_content, expected_it, actual_it, expected_line,
                 actual_buffer, has_diff, events, ret, run_record>>

\* one turn of while (matching_actual_it == actual_buffer.end())
do_diff_read_ahead ==
  /\ revision = "file_differ" /\ pc = "search"
  /\ actual_it' = read_actual_line.it
  /\ actual' = read_actual_line.stream
  /\ IF read_actual_line.line = None
     THEN /\ pc' = "classify"
          /\ UNCHANGED <<actual_buffer, matching_actual_it>>
     ELSE /\ actual_buffer' = Append(actual_buffer, read_actual_line.line[1])
          /\ matching_actual_it' = find_last(actual_buffer', expected_line[1])
          /\ pc' = IF matching_actual_it' = Len(actual_buffer') + 1
                   THEN "search" ELSE "classify"
  /\ peak_buffer' = IF Len(actual_buffer') > peak_buffer
                    THEN Len(actual_buffer') ELSE peak_buffer
  /\ UNCHANGED <<cli_vars, inputs, strategy, expected, expected_content, actual_content,
                 expected_it, expected_line, has_diff, events, ret, run_record>>

\* if (matching_actual_it != actual_buffer.end()) { ... }
\* expected_line = read_expected_line();
do_diff_match ==
  /\ revision = "file_differ" /\ pc = "classify"
  /\ matching_actual_it # Len(actual_buffer) + 1
  /\ LET b == match_branch(actual_buffer, matching_actual_it, expected_line[1],
                           has_diff, events)
     IN /\ has_diff' = b.has_diff
        /\ events' = b.events
        /\ actual_buffer' = b.buffer
  /\ expected_line' = read_expected_line.line
  /\ expected_it' = read_expected_line.it
  /\ expected' = read_expected_line.stream
  /\ pc' = "while_expected"
  /\ UNCHANGED <<cli_vars, inputs, peak_buffer, strategy, actual, expected_content, actual_content,
                 actual_it, matching_actual_it, ret, run_record>>

\* else { has_diff = true; expected_only }
\* expected_line = read_expected_line();
do_diff_miss ==
  /\ revision = "file_differ" /\ pc = "classify"
  /\ matching_actual_it = Len(actual_buffer) + 1
  /\ LET b == miss_branch(expected_line[1], events)
     IN /\ has_diff' = b.has_diff
        /\ events' = b.events
  /\ expected_line' = read_expected_line.line
  /\ expected_it' = read_expected_line.it
  /\ expected' = read_expected_line.stream
  /\ pc' = "while_expected"
  /\ UNCHANGED <<cli_vars, inputs, peak_buffer, strategy, actual, expected_content, actual_content,
                 actual_it, actual_buffer, matching_actual_it, ret, run_record>>

\* for_each(actual_buffer, actual_only); actual_buffer.clear();
do_diff_flush ==
  /\ revision = "file_differ" /\ pc = "flush"
  /\ events' = events \o EmitAll(actual_buffer, "actual_only")
  /\ actual_buffer' = <<>>
  /\ pc' = "drain"
  /\ UNCHANGED <<cli_vars, inputs, peak_buffer, strategy, expected, actual, expected_content,
                 actual_content, expected_it, actual_it, expected_line,
                 matching_actual_it, has_diff, ret, run_record>>

\* actual_line = read_actual_line(); while (actual_line) { actual_only; ... }
\* return has_diff;
do_diff_drain ==
  /\ revision = "file_differ" /\ pc = "drain"
  /\ actual_it' = read_actual_line.it
  /\ actual' = read_actual_line.stream
  /\ IF read_actual_line.line # None
     THEN /\ events' = Append(events,
                         diff_line(read_actual_line.line[1], "actual_only"))
          /\ UNCHANGED <<pc, ret>>
     ELSE /\ ret' = Some(has_diff)
          /\ pc' = "returned"
          /\ UNCHANGED events
  /\ UNCHANGED <<cli_vars, inputs, peak_buffer, strategy, expected, expected_content, actual_content,
                 expected_it, expected_line, actual_buffer, matching_actual_it,
                 has_diff, run_record>>

----------------------------------------------------------------------------
\* revision "functions": diff_file_stdout_eager

\* has_diff{}; both files are read whole; actual_it = actual_content.begin()
fn_eager_hydrate ==
  /\ revision = "functions" /\ strategy = "eager" /\ pc = "entry"
  /\ has_diff' = FALSE
  /\ expected_content' = ReadAll(expected)
  /\ expected' = Exhaust(expected)
  /\ actual_content' = ReadAll(actual)
  /\ actual' = Exhaust(actual)
  /\ actual_it' = 1
  /\ pc' = "for_loop"
  /\ UNCHANGED <<cli_vars, inputs, peak_buffer, strategy, expected_it, expected_line, actual_buffer,
                 matching_actual_it, events, ret, run_record>>

\* expected_it != expected_content.end() && actual_it != actual_content.end()
fn_eager_loop_cond ==
  /\ expected_content # <<>>
  /\ actual_it # Len(actual_content) + 1

\* loop body, the line is found in actual_content; the context line is *it;
\* erase() returns the new begin(); the first expected line is erased
fn_eager_match ==
  /\ revision = "functions" /\ strategy = "eager" /\ pc = "for_loop"
  /\ fn_eager_loop_cond
  /\ LET it == find(actual_content, expected_content[1])
     IN /\ it # Len(actual_content) + 1
        /\ LET b == match_branch(actual_content, it, actual_content[it],
                                 has_diff, events)
           IN /\ has_diff' = b.has_diff
              /\ events' = b.events
              /\ actual_content' = b.buffer
        /\ matching_actual_it' = it
  /\ actual_it' = 1
  /\ expected_content' = Tail(expected_content)
  /\ UNCHANGED <<cli_vars, inputs, peak_buffer, strategy, expected, actual, expected_it,
                 expected_line, actual_buffer, ret, pc, run_record>>

\* loop body, the line is not found in actual_content
fn_eager_miss ==
  /\ revision = "functions" /\ strategy = "eager" /\ pc = "for_loop"
  /\ fn_eager_loop_cond
  /\ find(actual_content, expected_content[1]) = Len(actual_content) + 1
  /\ LET b == miss_branch(expected_content[1], events)
     IN /\ has_diff' = b.has_diff
        /\ events' = b.events
  /\ matching_actual_it' = Len(actual_content) + 1
  /\ expected_content' = Tail(expected_content)
  /\ UNCHANGED <<cli_vars, inputs, peak_buffer, strategy, expected, actual, actual_content,
                 expected_it, actual_it, expected_line, actual_buffer, ret, pc,
                 run_record>>

\* after the loop: if (!expected_content.empty()) { has_diff = true;
\* every remaining expected line goes out as actual_only }; clear()
fn_eager_flush_expected ==
  /\ revision = "functions" /\ strategy = "eager" /\ pc = "for_loop"
  /\ ~fn_eager_loop_cond
  /\ IF expected_content # <<>>
     THEN /\ has_diff' = TRUE
          /\ events' = events \o EmitAll(expected_content, "actual_only")
     ELSE UNCHANGED <<has_diff, events>>
  /\ expected_content' = <<>>
  /\ pc' = "flush_actual"
  /\ UNCHANGED <<cli_vars, inputs, peak_buffer, strategy, expected, actual, actual_content,
                 expected_it, actual_it, expected_line, actual_buffer,
                 matching_actual_it, ret, run_record>>

\* if (actual_it != actual_content.end()) { has_diff = true; actual_only... }
\* actual_content.clear(); return has_diff;
fn_eager_flush_actual ==
  /\ revision = "functions" /\ strategy = "eager" /\ pc = "flush_actual"
  /\ IF actual_it # Len(actual_content) + 1
     THEN /\ has_diff' = TRUE
          /\ events' = events \o
               EmitAll(SubSeq(actual_content, actual_it, Len(actual_content)),
                       "actual_only")
     ELSE UNCHANGED <<has_diff, events>>
  /\ actual_content' = <<>>
  /\ ret' = Some(has_diff')
  /\ pc' = "returned"
  /\ UNCHANGED <<cli_vars, inputs, peak_buffer, strategy, expected, actual, expected_content,
                 expected_it, actual_it, expected_line, actual_buffer,
                 matching_actual_it, run_record>>

----------------------------------------------------------------------------
\* revision "functions": diff_file_stdout

\* has_diff{}; only_actual{}; actual_buffer;
fn_lazy_begin ==
  /\ revision = "functions" /\ strategy = "lazy" /\ pc = "entry"
  /\ has_diff' = FALSE
  /\ actual_buffer' = <<>>
  /\ pc' = "while_expected"
  /\ UNCHANGED <<cli_vars, inputs, peak_buffer, strategy, expected, actual, expected_content,
                 actual_content, expected_it, actual_it, expected_line,
                 matching_actual_it, events, ret, run_record>>

\* while (expected) { getline(expected, expected_line); find(actual_buffer..)
fn_lazy_while_expected ==
  /\ revision = "functions" /\ strategy = "lazy" /\ pc = "while_expected"
  /\ IF Good(expected)
     THEN /\ expected' = getline(expected).stream
          /\ expected_line' = Some(getline(expected).line)
          /\ matching_actual_it' = find(actual_buffer, expected_line'[1])
          /\ pc' = IF matching_actual_it' = Len(actual_buffer) + 1
                   THEN "search" ELSE "classify"
     ELSE /\ pc' = "flush"
          /\ UNCHANGED <<expected, expected_line, matching_actual_it>>
  /\ UNCHANGED <<cli_vars, inputs, peak_buffer, strategy, actual, expected_content, actual_content,
                 expected_it, actual_it, actual_buffer, has_diff, events, ret,
                 run_record>>

\* one turn of while (matching_actual_it == actual_buffer.end()): the stream
\* is not tested, every getline result is pushed, the whole buffer is searched
fn_lazy_read_ahead ==
  /\ revision = "functions" /\ strategy = "lazy" /\ pc = "search"
  /\ Len(actual_buffer) < MaxBuffer
  /\ actual' = getline(actual).stream
  /\ actual_buffer' = Append(actual_buffer, getline(actual).line)
  /\ matching_actual_it' = find(actual_buffer', expected_line[1])
  /\ pc' = IF matching_actual_it' = Len(actual_buffer') + 1
           THEN "search" ELSE "classify"
  /\ peak_buffer' = IF Len(actual_buffer') > peak_buffer
                    THEN Len(actual_buffer') ELSE peak_buffer
  /\ UNCHANGED <<cli_vars, inputs, strategy, expected, expected_content, actual_content,
                 expected_it, actual_it, expected_line, has_diff, events, ret,
                 run_record>>

\* if (matching_actual_it != actual_buffer.end()) { ... } else { ... }
fn_lazy_classify ==
  /\ revision = "functions" /\ strategy = "lazy" /\ pc = "classify"
  /\ IF matching_actual_it # Len(actual_buffer) + 1
     THEN LET b == match_branch(actual_buffer, matching_actual_it,
                                expected_line[1], has_diff, events)
          IN /\ has_diff' = b.has_diff
             /\ events' = b.events
             /\ actual_buffer' = b.buffer
     ELSE LET b == miss_branch(expected_line[1], events)
          IN /\ has_diff' = b.has_diff
             /\ events' = b.events
             /\ UNCHANGED actual_buffer
  /\ pc' = "while_expected"
  /\ UNCHANGED <<cli_vars, inputs, peak_buffer, strategy, expected, actual, expected_content,
                 actual_content, expected_it, actual_it, expected_line,
                 matching_actual_it, ret, run_record>>

\* for_each(actual_buffer, actual_only); actual_buffer.clear();
fn_lazy_flush ==
  /\ revision = "functions" /\ strategy = "lazy" /\ pc = "flush"
  /\ events' = events \o EmitAll(actual_buffer, "actual_only")
  /\ actual_buffer' = <<>>
  /\ pc' = "drain"
  /\ UNCHANGED <<cli_vars, inputs, peak_buffer, strategy, expected, actual, expected_content,
                 actual_content, expected_it, actual_it, expected_line,
                 matching_actual_it, has_diff, ret, run_record>>

\* while (actual) { getline(actual, line); actual_only } return has_diff;
fn_lazy_drain ==
  /\ revision = "functions" /\ strategy = "lazy" /\ pc = "drain"
  /\ IF Good(actual)
     THEN /\ actual' = getline(actual).stream
          /\ events' = Append(events,
                         diff_line(getline(actual).line, "actual_only"))
          /\ UNCHANGED <<pc, ret>>
     ELSE /\ ret' = Some(has_diff)
          /\ pc' = "returned"
          /\ UNCHANGED <<actual, events>>
  /\ UNCHANGED <<cli_vars, inputs, peak_buffer, strategy, expected, expected_content, actual_content,
                 expected_it, actual_it, expected_line, actual_buffer,
                 matching_actual_it, has_diff, run_record>>

----------------------------------------------------------------------------
\* the callers

\* the callback of main: the prefix printed for a diff line type
prefix(type) ==
  CASE type = "context" -> " "
    [] type = "expected_only" -> "-"
    [] type = "actual_only" -> "+"

\* std::print("{}{}\n", prefix, diff_line.line) for every event of main's run
stdout(evs) == [i \in 1..Len(evs) |-> <<prefix(evs[i].type)>> \o evs[i].line]

\* main after diff_file_stdout_eager returned:
\* if (has_diff) return EXIT_FAILURE; falling off main returns 0
main_exit ==
  /\ strategy = "eager" /\ pc = "returned"
  /\ exit_code' = Some(IF ret[1] THEN EXIT_FAILURE ELSE EXIT_SUCCESS)
  /\ eager_run' = Some([events |-> events, ret |-> ret[1]])
  /\ pc' = "exited"
  /\ UNCHANGED <<cli_vars, inputs, peak_buffer, strategy, expected, actual, expected_content,
                 actual_content, expected_it, actual_it, expected_line,
                 actual_buffer, matching_actual_it, has_diff, events, ret>>

\* a LazyDiffTest case: both files are opened again and handed to
\* diff_file_stdout with a collecting callback
lazy_diff_test ==
  /\ strategy = "eager" /\ pc = "exited"
  /\ strategy' = "lazy"
  /\ expected' = OpenStream(expected_file)
  /\ actual' = OpenStream(actual_file)
  /\ expected_content' = <<>>
  /\ actual_content' = <<>>
  /\ expected_it' = 1
  /\ actual_it' = 1
  /\ expected_line' = None
  /\ actual_buffer' = <<>>
  /\ matching_actual_it' = 1
  /\ has_diff' = FALSE
  /\ events' = <<>>
  /\ ret' = None
  /\ pc' = "entry"
  /\ peak_buffer' = 0
  /\ UNCHANGED <<cli_vars, inputs, run_record>>

Next ==
  \/ eager_file_differ
  \/ lazy_file_differ
  \/ do_diff_begin
  \/ do_diff_while_expected
  \/ do_diff_read_ahead
  \/ do_diff_match
  \/ do_diff_miss
  \/ do_diff_flush
  \/ do_diff_drain
  \/ fn_eager_hydrate
  \/ fn_eager_match
  \/ fn_eager_miss
  \/ fn_eager_flush_expected
  \/ fn_eager_flush_actual
  \/ fn_lazy_begin
  \/ fn_lazy_while_expected
  \/ fn_lazy_read_ahead
  \/ fn_lazy_classify
  \/ fn_lazy_flush
  \/ fn_lazy_drain
  \/ main_exit
  \/ lazy_diff_test

Spec == Init /\ [][Next]_vars

----------------------------------------------------------------------------
\* vocabulary of the properties

\* the lines std::getline delivers for each file
ExpectedLines == ReadAll(OpenStream(expected_file))
ActualLines == ReadAll(OpenStream(actual_file))

IsFnEager == revision = "functions" /\ strategy = "eager"

\* the actual lines held back: read, not matched, not emitted
Pending == IF IsFnEager THEN actual_content ELSE actual_buffer

\* the actual lines the source can still deliver
Unread ==
  IF IsFnEager THEN <<>>
  ELSE IF strategy = "eager"
       THEN SubSeq(actual_content, actual_it, Len(actual_content))
       ELSE ReadAll(actual)

\* the expected line being classified
CurrentLine == IF IsFnEager THEN expected_content[1] ELSE expected_line[1]

NonContext(evs) == \E i \in 1..Len(evs) : evs[i].type # "context"

Occurrences(lines, l) == Cardinality({i \in 1..Len(lines) : lines[i] = l})

\* a step that classifies the current expected line as matched / unmatched
MatchStep ==
  \/ do_diff_match
  \/ fn_eager_match
  \/ fn_lazy_classify /\ matching_actual_it # Len(actual_buffer) + 1

MissStep ==
  \/ do_diff_miss
  \/ fn_eager_miss
  \/ fn_lazy_classify /\ matching_actual_it = Len(actual_buffer) + 1

\* the search for the current expected line has ended with a match
Matched ==
  IF IsFnEager
  THEN pc = "for_loop" /\ fn_eager_loop_cond
       /\ find(actual_content, expected_content[1]) # Len(actual_content) + 1
  ELSE pc = "classify" /\ matching_actual_it # Len(actual_buffer) + 1

Finished == pc = "returned"

----------------------------------------------------------------------------
\* C1: for every pair of inputs the lazy entry point delivers the same
\* ordered events and the same return value as the eager entry point
C1_StrategyEquivalence ==
  (strategy = "lazy" /\ Finished) =>
     /\ events = eager_run[1].events
     /\ ret[1] = eager_run[1].ret

\* C2: the returned has_diff is true iff the sink received an expected_only
\* or actual_only event, the trailing actual_only events included
C2_ReturnIffNonContext ==
  Finished => (ret[1] <=> NonContext(events))

\* C3: inputs that are not the same sequence of lines make both strategies
\* return true
C3_DifferentInputsReturnTrue ==
  (Finished /\ ExpectedLines # ActualLines) => ret[1] = TRUE

\* C4: inputs that are the same sequence of lines give no event at any point
\* of either run, and false is returned
C4_IdenticalInputsSilent ==
  ExpectedLines = ActualLines =>
     /\ events = <<>>
     /\ Finished => ret[1] = FALSE

C4_Witness ==
  /\ strategy = "lazy" /\ Finished
  /\ ExpectedLines = ActualLines
  /\ Len(ExpectedLines) >= 3
  /\ eager_run # None /\ eager_run[1].events = <<>>

\* C5: main exits non-zero iff it printed a line prefixed '-' or '+'
C5_ExitStatusIffDiffPrinted ==
  pc = "exited" =>
     (exit_code[1] # 0 <=>
        \E i \in 1..Len(stdout(eager_run[1].events)) :
           stdout(eager_run[1].events)[i][1] \in {"-", "+"})

\* C6: the actual line an expected line is matched with is the earliest
\* pending line equal to it
C6_EarliestMatch ==
  [][MatchStep =>
       LET k == Len(Pending) - Len(Pending')
       IN /\ k >= 1
          /\ Pending[k] = CurrentLine
          /\ \A j \in 1..(k - 1) : Pending[j] # CurrentLine
          /\ Pending' = SubSeq(Pending, k + 1, Len(Pending))]_vars

C6_Witness ==
  /\ revision = "file_differ" /\ strategy = "lazy"
  /\ Matched
  /\ Occurrences(Pending \o Unread, CurrentLine) >= 2
  /\ find(Pending, CurrentLine) >= 2

\* C7: a matched line goes out as a context event iff an expected_only or
\* actual_only event was emitted before it, the flush of the same step
\* included; so the first event of a run is never a context event
C7_ContextIffDiverged ==
  [][MatchStep =>
       LET n == Len(events')
           emitted == /\ n > Len(events)
                      /\ events'[n] = diff_line(CurrentLine, "context")
       IN /\ emitted <=> NonContext(events')
          /\ emitted <=> (NonContext(events) \/ find(Pending, CurrentLine) > 1)
          /\ n > 0 => events'[1].type # "context"]_vars

C7_Witness ==
  /\ ~IsFnEager /\ pc = "while_expected"
  /\ Len(events) >= 3
  /\ events[1].type = "actual_only"
  /\ events[2].type = "context"
  /\ events[3].type = "context"

\* C8 as stated: the actual lines skipped over while searching for an
\* expected line are emitted before its expected_only event, so none of them
\* is still held back when that event is emitted
C8_SkippedBeforeExpectedOnly ==
  [][MissStep => Pending' = <<>>]_vars

\* C8 as amended: the skipped actual lines are still held back when the
\* expected_only event of the unmatched line is emitted, and they are emitted
\* as actual_only before the context event of the expected line that matches
\* behind them
C8_SkippedAfterExpectedOnlyBeforeContext ==
  [][/\ MissStep =>
          /\ events'[Len(events')] = diff_line(CurrentLine, "expected_only")
          /\ Len(events') = Len(events) + 1
          /\ Pending' = Pending
     /\ MatchStep =>
          LET skipped == find(Pending, CurrentLine) - 1
              n == Len(events')
          IN skipped > 0 =>
               /\ n = Len(events) + skipped + 1
               /\ events'[n].type = "context"
               /\ \A i \in (Len(events) + 1)..(n - 1) :
                     events'[i].type = "actual_only"
               /\ Len(Pending') = Len(Pending) - skipped - 1]_vars

C8_Witness ==
  /\ Finished
  /\ \E i \in 1..(Len(events) - 2) :
        /\ events[i].type = "expected_only"
        /\ events[i + 1].type = "actual_only"
        /\ events[i + 1].line # <<>>
        /\ events[i + 2].type = "context"

\* C9: a match at buffer index k emits the k lines before it as actual_only
\* events in their order, then the context event, and nothing else
C9_MatchFlushesSkippedInOrder ==
  [][MatchStep =>
       LET k == find(Pending, CurrentLine) - 1
       IN events' = events
                      \o [i \in 1..k |-> diff_line(Pending[i], "actual_only")]
                      \o (IF NonContext(events) \/ k > 0
                          THEN <<diff_line(CurrentLine, "context")>>
                          ELSE <<>>)]_vars

C9_Witness ==
  /\ pc \in {"while_expected", "for_loop"}
  /\ Len(events) >= 3
  /\ events[Len(events)].type = "context"
  /\ events[Len(events) - 1].type = "actual_only"
  /\ events[Len(events) - 2].type = "actual_only"
  /\ events[Len(events) - 1].line # events[Len(events) - 2].line

\* C10: an expected line that equals no pending line and no line the actual
\* source can still deliver gives exactly one event, its expected_only
\* event, sets has_diff and leaves the pending lines where they are
C10_UnmatchedLineIsExpectedOnly ==
  [][/\ ((MatchStep \/ MissStep)
           /\ Occurrences(Pending \o Unread, CurrentLine) = 0)
        => /\ events' = Append(events, diff_line(CurrentLine, "expected_only"))
           /\ has_diff'
           /\ Pending' = Pending
     /\ (fn_eager_flush_expected
           /\ \A i \in 1..Len(expected_content) :
                 Occurrences(Pending \o Unread, expected_content[i]) = 0)
        => /\ events' = events \o
                          [i \in 1..Len(expected_content) |->
                             diff_line(expected_content[i], "expected_only")]
           /\ expected_content # <<>> => has_diff'
           /\ Pending' = Pending]_vars

----------------------------------------------------------------------------
\* the matching loop over the expected lines has ended, the call has not
\* returned: what is left to do is the trailing flush
AfterLoop ==
  \/ pc \in {"flush", "drain", "flush_actual"}
  \/ IsFnEager /\ pc = "for_loop" /\ ~fn_eager_loop_cond

\* the actual lines not yet accounted for, in input order
Due == Pending \o Unread

AsActualOnly(lines) ==
  [i \in 1..Len(lines) |-> [line |-> lines[i], type |-> "actual_only"]]

----------------------------------------------------------------------------
\* one turn of the read-ahead loop that searches the actual input
ReadAheadStep == do_diff_read_ahead \/ fn_lazy_read_ahead

\* C12: both calls return after finitely many steps: a turn of the search
\* taken when the actual source has no line left is the last turn of that
\* search, so a search for a line that occurs nowhere in the remaining
\* actual input stops once the actual source is exhausted.
C12_SearchStopsAtExhaustion ==
  [][(ReadAheadStep /\ Unread = <<>>) => pc' = "classify"]_vars

----------------------------------------------------------------------------
\* a file_differ object exists and do_diff is running or has returned
InCall == revision = "file_differ" /\ pc \notin {"entry", "exited"}

ExpectedExhausted == read_expected_line.line = None
ActualExhausted == read_actual_line.line = None

\* C13: for the eager and the lazy line source and for both inputs, once
\* read_expected_line or read_actual_line reports exhaustion, it reports
\* exhaustion at every later call on the same source, whatever the engine
\* has called in between.
C13_ExhaustionIsSticky ==
  [][(InCall /\ InCall') =>
       /\ ExpectedExhausted => ExpectedExhausted'
       /\ ActualExhausted => ActualExhausted']_vars

\* the actual source has reported exhaustion to an earlier search (that line
\* went out as expected_only) and has reported it again to this search
C13_Witness ==
  /\ InCall /\ strategy = "lazy" /\ pc = "classify"
  /\ matching_actual_it = Len(actual_buffer) + 1
  /\ ActualExhausted
  /\ \E i \in 1..Len(events) : events[i].type = "expected_only"

----------------------------------------------------------------------------
\* the lines a lazy source in state s delivers until it reports exhaustion
RECURSIVE LazyLines(_)
LazyLines(s) ==
  LET r == lazy_read_line(s)
  IN IF r.line = None THEN <<>> ELSE <<r.line[1]>> \o LazyLines(r.stream)

\* the lines an eager source with cursor it delivers until it reports
\* exhaustion
RECURSIVE EagerLines(_, _)
EagerLines(content, it) ==
  LET r == eager_read_line(content, it)
  IN IF r.line = None THEN <<>> ELSE <<r.line[1]>> \o EagerLines(content, r.it)

\* what each source delivers for a file, from construction on
LazySequence(file) == LazyLines(OpenStream(file))
EagerSequence(file) == EagerLines(ReadAll(OpenStream(file)), 1)

IsSuffix(s, t) ==
  /\ Len(s) <= Len(t)
  /\ s = SubSeq(t, Len(t) - Len(s) + 1, Len(t))

\* C14: for the same stream contents the eager and the lazy line source
\* deliver the same sequence of lines before they report exhaustion; at any
\* moment of a call, what the source in use has yet to deliver is the tail of
\* what the other one delivers for that file.
C14_SourcesDeliverSameLines ==
  /\ LazySequence(expected_file) = EagerSequence(expected_file)
  /\ LazySequence(actual_file) = EagerSequence(actual_file)
  /\ (InCall /\ strategy = "eager") =>
       /\ IsSuffix(EagerLines(expected_content, expected_it),
                   LazySequence(expected_file))
       /\ IsSuffix(EagerLines(actual_content, actual_it),
                   LazySequence(actual_file))
  /\ (InCall /\ strategy = "lazy") =>
       /\ IsSuffix(LazyLines(expected), EagerSequence(expected_file))
       /\ IsSuffix(LazyLines(actual), EagerSequence(actual_file))

\* a lazy call in which both sources have delivered some of their lines and
\* have some left
C14_Witness ==
  /\ InCall /\ strategy = "lazy"
  /\ Len(EagerSequence(actual_file)) >= 3
  /\ LazyLines(actual) # <<>>
  /\ Len(LazyLines(actual)) < Len(EagerSequence(actual_file))
  /\ LazyLines(expected) # <<>>
  /\ Len(LazyLines(expected)) < Len(EagerSequence(expected_file))

----------------------------------------------------------------------------
\* a lazy read-ahead turn that ends the search with a match
FoundByReadAhead ==
  /\ strategy = "lazy" /\ ReadAheadStep
  /\ pc' = "classify"
  /\ matching_actual_it' # Len(actual_buffer') + 1

\* C15: in the lazy strategy, when read-ahead finds a match for the expected
\* line, the matched line is the actual line read last: the turn has taken
\* the next unread line of the actual input, every line after it is still
\* unread, and the match step that follows leaves the pending buffer empty.
C15_ReadAheadStopsAtMatch ==
  [][/\ FoundByReadAhead =>
          /\ Unread # <<>>
          /\ actual_buffer' = Append(actual_buffer, Head(Unread))
          /\ Unread' = Tail(Unread)
          /\ matching_actual_it' = Len(actual_buffer')
          /\ actual_buffer'[matching_actual_it'] = expected_line[1]
     /\ (strategy = "lazy" /\ MatchStep
           /\ matching_actual_it = Len(actual_buffer)) =>
          actual_buffer' = <<>>]_vars

----------------------------------------------------------------------------
\* the length of the longest run of consecutive non-context events
LongestMismatchRun(evs) ==
  LET IsRun(i, n) == \A k \in i..(i + n - 1) : evs[k].type # "context"
      lengths == {n \in 0..Len(evs) :
                    \E i \in 1..(Len(evs) - n + 1) : IsRun(i, n)}
  IN CHOOSE n \in lengths : \A m \in lengths : m <= n

\* the number of lines read from the actual source so far
LinesRead == Len(ActualLines) - Len(Unread)

\* C16 as stated: in the lazy strategy the pending buffer never holds more
\* actual lines than the longest mismatch run of the output has events (one
\* more is granted for the line under comparison), whatever the length of
\* the actual input.
C16_BufferBoundedByMismatchRun ==
  (strategy = "lazy" /\ Finished) =>
    peak_buffer <= LongestMismatchRun(events) + 1

\* C16 amended: in the lazy strategy the pending buffer grows by one line
\* per read-ahead turn and by nothing else, and a match takes the matched
\* line and the lines in front of it out; while the actual source is not
\* exhausted it holds at most the actual lines read so far.  A search that
\* ends without a match has read every remaining actual line into the
\* buffer: the bound is the actual input, not the longest mismatch run.
C16_BufferBoundedByLinesRead ==
  [][(strategy = "lazy" /\ strategy' = "lazy") =>
       /\ Len(actual_buffer') <=
            Len(actual_buffer) + (IF ReadAheadStep THEN 1 ELSE 0)
       /\ MatchStep =>
            Len(actual_buffer') = Len(actual_buffer) - matching_actual_it
       /\ Good(actual) => Len(actual_buffer) <= LinesRead
       /\ MissStep => Unread = <<>>]_vars

\* a lazy call that held the whole actual input in the buffer although no
\* two non-context events of its output are adjacent
C16_Witness ==
  /\ strategy = "lazy" /\ Finished
  /\ Len(ActualLines) >= 3
  /\ peak_buffer = Len(ActualLines)
  /\ LongestMismatchRun(events) = 1

----------------------------------------------------------------------------
\* The inputs of the test suite: an expected file of distinct non-empty
\* lines, each ended by a newline, and an actual file that is the same file
\* or differs from it by one changed, one added or one removed line.

Word(n) == [i \in 1..n |-> "a"]
Words == {Word(n) : n \in 1..MaxWordLen}

RECURSIVE Join(_)
Join(lines) ==
  IF lines = <<>> THEN <<>> ELSE lines[1] \o <<NL>> \o Join(Tail(lines))

PairwiseDistinct(lines) ==
  \A i, j \in 1..Len(lines) : lines[i] = lines[j] => i = j

Range(lines) == {lines[i] : i \in 1..Len(lines)}

DistinctLines(n) ==
  {ls \in UNION {[1..k -> Words] : k \in 0..n} : PairwiseDistinct(ls)}

Replace(ls, p, w) == [ls EXCEPT ![p] = w]
Remove(ls, p) == SubSeq(ls, 1, p - 1) \o SubSeq(ls, p + 1, Len(ls))
Insert(ls, p, w) == SubSeq(ls, 1, p - 1) \o <<w>> \o SubSeq(ls, p, Len(ls))

Edits(ls) ==
  {ls}
  \cup {Replace(ls, p, w) : p \in 1..Len(ls), w \in Words}
  \cup {Remove(ls, p) : p \in 1..Len(ls)}
  \cup {Insert(ls, p, w) : p \in 1..(Len(ls) + 1), w \in Words}

ScenarioInit ==
  /\ revision \in {"functions", "file_differ"}
  /\ \E ls \in DistinctLines(MaxScenarioLines) :
       /\ expected_file = Join(ls)
       /\ actual_file \in {Join(e) : e \in Edits(ls)}
  /\ strategy = "eager"
  /\ expected = OpenStream(expected_file)
  /\ actual = OpenStream(actual_file)
  /\ expected_content = <<>>
  /\ actual_content = <<>>
  /\ expected_it = 1
  /\ actual_it = 1
  /\ expected_line = None
  /\ actual_buffer = <<>>
  /\ matching_actual_it = 1
  /\ has_diff = FALSE
  /\ events = <<>>
  /\ ret = None
  /\ pc = "entry"
  /\ eager_run = None
  /\ exit_code = None
  /\ peak_buffer = 0
  /\ MainInCall

ScenarioSpec == ScenarioInit /\ [][Next]_vars

----------------------------------------------------------------------------
\* a file's own lines: what a source delivers for it, less the empty line
\* delivered by the read that hits the end of the input
OwnLines(lines) == SubSeq(lines, 1, Len(lines) - 1)
ExpectedOwn == OwnLines(ExpectedLines)
ActualOwn == OwnLines(ActualLines)

AsContext(lines) ==
  [i \in 1..Len(lines) |-> [line |-> lines[i], type |-> "context"]]

\* actual is expected with the line at position p replaced by a new line
OneLineChangedAt(p) ==
  /\ p \in 1..Len(ExpectedOwn)
  /\ Len(ActualOwn) = Len(ExpectedOwn)
  /\ \A i \in 1..Len(ExpectedOwn) : i # p => ActualOwn[i] = ExpectedOwn[i]
  /\ ActualOwn[p] \notin Range(ExpectedOwn)
  /\ PairwiseDistinct(ExpectedOwn)

\* C17 as stated: if all lines are pairwise distinct and actual is expected
\* with the line at one position replaced by a new line, the events are
\* exactly expected_only(old line), actual_only(new line) and a context event
\* for each line after that position, in order, and HasDiff is true.
C17_OneLineChangedEvents ==
  Finished =>
    \A p \in 1..Len(ExpectedOwn) :
      OneLineChangedAt(p) =>
        /\ events = <<[line |-> ExpectedOwn[p], type |-> "expected_only"],
                      [line |-> ActualOwn[p], type |-> "actual_only"]>>
                    \o AsContext(SubSeq(ExpectedOwn, p + 1, Len(ExpectedOwn)))
        /\ ret = Some(TRUE)

\* C17 amended: if all lines are non-empty and pairwise distinct and actual
\* is expected with the line at one position replaced by a new line, the
\* events are exactly expected_only(old line), actual_only(new line), a
\* context event for each line after that position, in order, and one more
\* context event for the empty line delivered at the end of the input;
\* nothing is emitted for the lines before the position; HasDiff is true.
C17_OneLineChangedEventsWithLastLine ==
  Finished =>
    \A p \in 1..Len(ExpectedOwn) :
      (/\ OneLineChangedAt(p)
       /\ PairwiseDistinct(ExpectedLines)
       /\ ActualOwn[p] \notin Range(ExpectedLines)) =>
        /\ events = <<[line |-> ExpectedOwn[p], type |-> "expected_only"],
                      [line |-> ActualOwn[p], type |-> "actual_only"]>>
                    \o AsContext(SubSeq(ExpectedLines, p + 1,
                                        Len(ExpectedLines)))
        /\ ret = Some(TRUE)

\* the lazy call has returned for three lines with the middle one changed
C17_Witness ==
  /\ Finished /\ strategy = "lazy" /\ revision = "file_differ"
  /\ Len(ExpectedOwn) = 3
  /\ OneLineChangedAt(2)
  /\ Len(events) = 4

----------------------------------------------------------------------------
\* s can be obtained from t by deleting lines
RECURSIVE IsSubsequence(_, _)
IsSubsequence(s, t) ==
  IF s = <<>> THEN TRUE
  ELSE IF t = <<>> THEN FALSE
  ELSE IF s[1] = t[1] THEN IsSubsequence(Tail(s), Tail(t))
  ELSE IsSubsequence(s, Tail(t))

CountOf(evs, t) == Cardinality({i \in 1..Len(evs) : evs[i].type = t})

\* C18: if expected is a subsequence of actual, that is, actual is expected
\* with extra lines inserted anywhere, no expected_only event is emitted and
\* the number of actual_only events is the number of lines of actual less
\* the number of lines of expected.
C18_LinesAddedOnly ==
  (Finished /\ IsSubsequence(ExpectedOwn, ActualOwn)) =>
    /\ CountOf(events, "expected_only") = 0
    /\ CountOf(events, "actual_only") = Len(ActualOwn) - Len(ExpectedOwn)

\* the lazy call has returned for an actual input that is the expected input
\* with a line put in front of it and a line put after its first line
C18_Witness ==
  /\ Finished /\ strategy = "lazy" /\ revision = "file_differ"
  /\ Len(ExpectedOwn) = 2
  /\ Len(ActualOwn) = 4
  /\ ActualOwn[2] = ExpectedOwn[1]
  /\ ActualOwn[4] = ExpectedOwn[2]
  /\ ActualOwn[1] # ExpectedOwn[1]
  /\ ActualOwn[3] # ExpectedOwn[2]
  /\ CountOf(events, "actual_only") = 2

----------------------------------------------------------------------------
\* actual is expected with the line at position p removed
OneLineRemovedAt(p) ==
  /\ p \in 1..Len(ExpectedOwn)
  /\ ActualOwn = Remove(ExpectedOwn, p)
  /\ PairwiseDistinct(ExpectedOwn)

\* one expected_only event, for the line at position p; no actual_only
\* event; the expected lines after position p go out as context, in order
RemovedLineEvents(p) ==
  /\ CountOf(events, "expected_only") = 1
  /\ \E i \in 1..Len(events) :
       events[i] = [line |-> ExpectedOwn[p], type |-> "expected_only"]
  /\ CountOf(events, "actual_only") = 0
  /\ IsSubsequence(AsContext(SubSeq(ExpectedOwn, p + 1, Len(ExpectedOwn))),
                   events)

\* C19 as stated: if all lines are pairwise distinct and actual is expected
\* with one line removed, at the start, in the middle or at the end, there is
\* exactly one expected_only event, it carries the removed line, there is no
\* actual_only event and every expected line after the removed one is
\* emitted as context.
C19_OneLineRemovedEvents ==
  Finished =>
    \A p \in 1..Len(ExpectedOwn) : OneLineRemovedAt(p) => RemovedLineEvents(p)

\* C19 amended: the same for lines that are pairwise distinct and non-empty,
\* so that no line equals the empty line delivered at the end of the input.
C19_OneNonEmptyLineRemovedEvents ==
  Finished =>
    \A p \in 1..Len(ExpectedOwn) :
      (OneLineRemovedAt(p) /\ PairwiseDistinct(ExpectedLines)) =>
        RemovedLineEvents(p)

\* diff_file_stdout_eager has returned for two lines with the first removed
C19_Witness ==
  /\ Finished /\ IsFnEager
  /\ Len(ExpectedOwn) = 2
  /\ OneLineRemovedAt(1)
  /\ PairwiseDistinct(ExpectedLines)
  /\ Len(events) = 3

----------------------------------------------------------------------------
AsExpectedOnly(lines) ==
  [i \in 1..Len(lines) |-> [line |-> lines[i], type |-> "expected_only"]]

\* both inputs have lines and no line of one equals a line of the other
CompletelyDifferent ==
  /\ ExpectedOwn # <<>>
  /\ ActualOwn # <<>>
  /\ Range(ExpectedOwn) \cap Range(ActualOwn) = {}

\* C20 as stated: if both inputs are non-empty and no line of expected equals
\* a line of actual, the events are every expected line as expected_only, in
\* input order, followed by every actual line as actual_only, in input
\* order, and HasDiff is true.
C20_CompletelyDifferentEvents ==
  (Finished /\ CompletelyDifferent) =>
    /\ events = AsExpectedOnly(ExpectedOwn) \o AsActualOnly(ActualOwn)
    /\ ret = Some(TRUE)

\* C20 amended: if both inputs are non-empty, all their lines are non-empty
\* and no line of expected equals a line of actual, the events are every
\* expected line as expected_only, in input order, then every actual line as
\* actual_only, in input order, then one context event for the empty line
\* delivered at the end of the input, and HasDiff is true.
C20_CompletelyDifferentEventsWithLastLine ==
  (/\ Finished
   /\ CompletelyDifferent
   /\ <<>> \notin Range(ExpectedOwn) \cup Range(ActualOwn)) =>
    /\ events = AsExpectedOnly(ExpectedOwn) \o AsActualOnly(ActualOwn)
                \o AsContext(<< <<>> >>)
    /\ ret = Some(TRUE)

\* the lazy call has returned for two lines against two other lines
C20_Witness ==
  /\ Finished /\ strategy = "lazy" /\ revision = "file_differ"
  /\ CompletelyDifferent
  /\ <<>> \notin Range(ExpectedOwn) \cup Range(ActualOwn)
  /\ Len(ExpectedOwn) = 2
  /\ Len(ActualOwn) = 2
  /\ Len(events) = 5

----------------------------------------------------------------------------
\* the pieces of a file between its line terminators
RECURSIVE Split(_)
Split(file) ==
  IF \A i \in 1..Len(file) : file[i] # NL THEN <<file>>
  ELSE LET i == Min({k \in 1..Len(file) : file[k] = NL})
       IN <<SubSeq(file, 1, i - 1)>> \o Split(SubSeq(file, i + 1, Len(file)))

\* a file's own lines: the last line needs no terminator, and nothing after
\* the last terminator is no line
FileLines(file) ==
  LET pieces == Split(file)
  IN IF pieces[Len(pieces)] = <<>>
     THEN SubSeq(pieces, 1, Len(pieces) - 1)
     ELSE pieces

NonEmptyLines(file) == <<>> \notin Range(FileLines(file))

EmptyLineContext == [line |-> <<>>, type |-> "context"]

\* C21: reading a stream delivers the file's own lines and then one empty
\* line, in the eager and in the lazy source; so when the own lines of both
\* inputs are non-empty, a run that emits a non-context event ends with a
\* context event for the empty line, the only context event which carries it.
C21_ExtraEmptyLine ==
  /\ \A file \in {expected_file, actual_file} :
       /\ EagerSequence(file) = FileLines(file) \o << <<>> >>
       /\ LazySequence(file) = FileLines(file) \o << <<>> >>
  /\ (/\ Finished
      /\ NonEmptyLines(expected_file) /\ NonEmptyLines(actual_file)
      /\ NonContext(events)) =>
       /\ events[Len(events)] = EmptyLineContext
       /\ Cardinality({i \in 1..Len(events) : events[i] = EmptyLineContext}) = 1

\* a lazy call has returned with a non-context event for inputs of non-empty
\* lines, one ended by a line terminator and one not
C21_Witness ==
  /\ Finished /\ strategy = "lazy" /\ revision = "file_differ"
  /\ NonEmptyLines(expected_file) /\ NonEmptyLines(actual_file)
  /\ Len(FileLines(expected_file)) = 2 /\ Len(FileLines(actual_file)) = 2
  /\ expected_file[Len(expected_file)] # NL
  /\ actual_file[Len(actual_file)] = NL
  /\ NonContext(events)
  /\ CountOf(events, "context") = 2

----------------------------------------------------------------------------
\* main from its first statement to its return, for every command line of
\* up to MaxArgs arguments and every file system over the two paths

\* the diff core has not been called
DiffIdle ==
  /\ revision = "functions"
  /\ strategy = "eager"
  /\ expected_file = <<>>
  /\ actual_file = <<>>
  /\ expected = OpenStream(<<>>)
  /\ actual = OpenStream(<<>>)
  /\ expected_content = <<>>
  /\ actual_content = <<>>
  /\ expected_it = 1
  /\ actual_it = 1
  /\ expected_line = None
  /\ actual_buffer = <<>>
  /\ matching_actual_it = 1
  /\ has_diff = FALSE
  /\ events = <<>>
  /\ ret = None
  /\ pc = "idle"
  /\ eager_run = None
  /\ exit_code = None
  /\ peak_buffer = 0

CliInit ==
  /\ argv \in {<<Program>> \o t : t \in ArgLists(MaxArgs)}
  /\ fs \in [Paths -> Kind]
  /\ cli_pc = "start"
  /\ cmd_args_or_err = None
  /\ expected_path_or_err = None
  /\ actual_path_or_err = None
  /\ printed = <<>>
  /\ opened = {}
  /\ core_called = FALSE
  /\ status = None
  /\ DiffIdle

CliNext ==
  \/ main_parse_cmdline
  \/ main_normalize_expected
  \/ main_normalize_actual
  \/ main_abort
  \/ main_open
  \/ main_diff

CliSpec == CliInit /\ [][CliNext]_vars

IsPathArgument(x) == x # Delimiter

\* the path arguments of the command line, in order
PathArguments == SelectSeq(Tail(argv), IsPathArgument)

\* parse_cmdline reports an error for the command line
ArgumentParseError == ~parse_cmdline(argv).has_value

\* a path taken from the command line does not exist or is not a regular file
PathError ==
  /\ ~ArgumentParseError
  /\ LET cmd_args == parse_cmdline(argv).value
     IN \/ KindOf(cmd_args.expected[1]) \in {"missing", "directory"}
        \/ KindOf(cmd_args.actual[1]) \in {"missing", "directory"}

\* C22: for an argument parse error, a path that is not found and a path
\* that is not a regular file, main prints a message and exits with a
\* non-zero status, and it never opens a file or calls the diff core.
C22_ErrorsStopMain ==
  (ArgumentParseError \/ PathError) =>
    /\ opened = {}
    /\ ~core_called
    /\ cli_pc = "exited" => (printed # <<>> /\ status # Some(EXIT_SUCCESS))

\* C23: parse_cmdline succeeds exactly when two path arguments are given,
\* with expected the first path and actual the second; "nanodiff e a",
\* without the delimiter, is such a command line.
C23_TwoPathsParse ==
  cli_pc # "start" =>
    /\ cmd_args_or_err.has_value <=> Len(PathArguments) = 2
    /\ cmd_args_or_err.has_value =>
         /\ cmd_args_or_err.value.expected = Some(PathArguments[1])
         /\ cmd_args_or_err.value.actual = Some(PathArguments[2])

----------------------------------------------------------------------------
\* the engine with a pending buffer is running or has returned
InEngine ==
  /\ ~IsFnEager
  /\ pc \in {"while_expected", "search", "classify", "flush", "drain",
             "returned"}

\* the expected lines the source can still deliver
ExpectedUnread ==
  IF revision = "file_differ" /\ strategy = "eager"
  THEN SubSeq(expected_content, expected_it, Len(expected_content))
  ELSE ReadAll(expected)

\* 1 when an expected line has been read and is not classified yet: do_diff
\* reads the next line at the end of the loop body, diff_file_stdout at the
\* top of it
InFlight ==
  IF revision = "file_differ"
  THEN IF pc \in {"while_expected", "search", "classify"}
          /\ expected_line # None
       THEN 1 ELSE 0
  ELSE IF pc \in {"search", "classify"} THEN 1 ELSE 0

\* the expected lines that have gone through the match or the miss branch
Classified == Len(ExpectedLines) - Len(ExpectedUnread) - InFlight

\* the actual lines that were matched or emitted
Consumed ==
  CountOf(events, "actual_only")
    + (Classified - CountOf(events, "expected_only"))

----------------------------------------------------------------------------
\* the held-back lines and the expected_only event of a failed search

\* the step takes the first k lines out of the pending buffer
TakesFromBuffer(k) ==
  /\ k \in 1..Len(actual_buffer)
  /\ actual_buffer' = SubSeq(actual_buffer, k + 1, Len(actual_buffer))

\* the events the step has appended
Emitted == SubSeq(events', Len(events) + 1, Len(events'))

\* C25: the step in which the search for an expected line fails emits that
\* line's expected_only event and nothing else, and leaves the lines read
\* into the buffer where they are, none of them emitted yet; lines leave the
\* buffer only in a later step, either a match inside the buffer, which
\* emits the lines in front of the match as actual_only, or the flush after
\* the loop, which emits all of them.
C25_ExpectedOnlyBeforeHeldLines ==
  [][/\ do_diff_miss =>
          /\ events' = Append(events, diff_line(expected_line[1], "expected_only"))
          /\ actual_buffer' = actual_buffer
          /\ actual_buffer = SubSeq(ActualLines, Consumed + 1, LinesRead)
     /\ (revision = "file_differ" /\ Len(actual_buffer') < Len(actual_buffer)) =>
          \/ /\ do_diff_match
             /\ TakesFromBuffer(matching_actual_it)
             /\ SubSeq(Emitted, 1, matching_actual_it - 1)
                  = EmitAll(SubSeq(actual_buffer, 1, matching_actual_it - 1),
                            "actual_only")
          \/ /\ do_diff_flush
             /\ TakesFromBuffer(Len(actual_buffer))
             /\ Emitted = EmitAll(actual_buffer, "actual_only")]_vars

\* a completed run of do_diff in which an expected_only event is followed
\* at once by the actual_only event of a line that was held in the buffer
C25_Witness ==
  /\ revision = "file_differ" /\ Finished
  /\ \E i \in 1..(Len(events) - 1) :
       /\ events[i].type = "expected_only"
       /\ events[i + 1].type = "actual_only"

----------------------------------------------------------------------------
\* the two searches of the read-ahead loop: the appended line alone
\* (do_diff) and the whole buffer again (diff_file_stdout)

\* a turn of the read-ahead loop that has appended a line to the buffer
AppendStep == ReadAheadStep /\ Len(actual_buffer') = Len(actual_buffer) + 1

\* C26: in every turn of read-ahead no line already in the buffer equals the
\* expected line, so after the append the search of the appended line alone
\* and the search of the whole buffer give the same iterator, which is the
\* one the code goes on with: both loops stop in the same turn, after the
\* same number of lines read, with the match at the same buffer index.
C26_LastLineSearchIsRescan ==
  [][/\ ReadAheadStep =>
          \A i \in 1..Len(actual_buffer) : actual_buffer[i] # expected_line[1]
     /\ AppendStep =>
          /\ find_last(actual_buffer', expected_line[1])
               = find(actual_buffer', expected_line[1])
          /\ matching_actual_it' = find(actual_buffer', expected_line[1])
          /\ matching_actual_it' = find_last(actual_buffer', expected_line[1])]_vars

\* do_diff has found a match by read-ahead behind a mismatching line, and
\* diff_file_stdout likewise
C26_Witness ==
  /\ pc = "classify" /\ ~has_diff
  /\ Len(actual_buffer) >= 2
  /\ matching_actual_it = Len(actual_buffer)

----------------------------------------------------------------------------
\* the events of a completed run against the two inputs, line by line

\* the lines of the events of the given types, in emission order
LinesOf(evs, types) ==
  LET sel == SelectSeq(evs, LAMBDA e : e.type \in types)
  IN [i \in 1..Len(sel) |-> sel[i].line]

\* the lines at the head of both inputs that match while has_diff is still
\* false: output_diff() has nothing to emit and the context line is skipped
LeadingMatches ==
  LET n == IF Len(ExpectedLines) < Len(ActualLines)
           THEN Len(ExpectedLines) ELSE Len(ActualLines)
      same == {k \in 0..n : SubSeq(ExpectedLines, 1, k) = SubSeq(ActualLines, 1, k)}
  IN CHOOSE k \in same : \A j \in same : j <= k

\* s without its first k elements
Drop(s, k) == SubSeq(s, k + 1, Len(s))

\* C27: in a completed run the lines of the expected_only and context
\* events, in emission order, are the lines of the expected input without
\* the leading lines that matched before the first event: every expected
\* line is a suppressed leading match, a context event or an expected_only
\* event, exactly one of them.
C27_ExpectedLinesAccounted ==
  Finished =>
    LinesOf(events, {"expected_only", "context"})
      = Drop(ExpectedLines, LeadingMatches)

\* C28: in a completed run the lines of the actual_only and context events,
\* in emission order, are the lines of the actual input without the leading
\* lines that matched before the first event, so every actual line is a
\* suppressed leading match, a context event or an actual_only event, and
\* every actual_only event carries a line of the actual input.
C28_ActualLinesAccounted ==
  Finished =>
    /\ LinesOf(events, {"actual_only", "context"})
         = Drop(ActualLines, LeadingMatches)
    /\ \A i \in 1..Len(events) :
         events[i].type = "actual_only" => events[i].line \in Range(ActualLines)

----------------------------------------------------------------------------
\* the pending buffer between the searches and at the flush

\* the engine is about to take the next expected line (the head of the
\* while loop) or has left the loop and is about to flush the buffer
AtStepStart == ~IsFnEager /\ pc \in {"while_expected", "flush"}

\* the actual source has no line to give: read_actual_line() returns
\* nullopt, the while (actual) of the drain is not entered
SourceDry ==
  IF revision = "file_differ" THEN ActualExhausted ELSE ~Good(actual)

\* C29: when the engine starts on an expected line, and when it reaches the
\* flush after the loop, a non-empty pending buffer means that the actual
\* source is exhausted and has_diff is true; a flush that emits lines is
\* therefore followed by a drain that emits none.
C29_BufferOnlyAfterExhaustion ==
  (AtStepStart /\ actual_buffer # <<>>) => (SourceDry /\ has_diff)

\* do_diff at the flush with lines in the buffer
C29_Witness ==
  /\ revision = "file_differ" /\ pc = "flush"
  /\ actual_buffer # <<>>

----------------------------------------------------------------------------
\* a line terminator after the last line

\* long is short with one line terminator added behind its last line, which
\* short leaves unterminated
TerminatorAdded(short, long) ==
  /\ short # <<>>
  /\ short[Len(short)] # NL
  /\ long = Append(short, NL)

\* the two inputs differ in the terminator of the last line and nowhere else
TerminatorOnly ==
  \/ TerminatorAdded(expected_file, actual_file)
  \/ TerminatorAdded(actual_file, expected_file)

\* C30: when one input is the other with a line terminator added after its
\* unterminated last line, both inputs deliver the same lines, and a
\* completed comparison, eager or lazy, has emitted no event and returns
\* false.
C30_FinalTerminatorIgnored ==
  TerminatorOnly =>
    /\ ExpectedLines = ActualLines
    /\ LazySequence(expected_file) = LazySequence(actual_file)
    /\ EagerSequence(expected_file) = EagerSequence(actual_file)
    /\ Finished => (events = <<>> /\ ret = Some(FALSE))

\* a lazy comparison of such inputs has returned
C30_Witness ==
  /\ TerminatorOnly
  /\ strategy = "lazy" /\ Finished

====
